---- MODULE Spec2Model ----
(***************************************************************************)
(* Model of the constraint-aware greedy scheduling engine:                 *)
(*   scheduler/constraints.py  ConstraintChecker                           *)
(*   scheduler/scoring.py      SlotScorer                                  *)
(*   scheduler/state.py        SchedulerState                              *)
(*   scheduler/greedy.py       GreedyScheduler                             *)
(*                                                                         *)
(* Times of day are minutes after midnight (0..1439).  Dates are day       *)
(* offsets from start_date (0 .. duration_days-1); start_weekday is the    *)
(* weekday (Mon=0..Sun=6) of start_date.  None is modelled by NoneTime for *)
(* times and by the empty string for ids.                                  *)
(***************************************************************************)
EXTENDS Integers, Sequences, FiniteSets, TLC

VARIABLES
    activities,            \* GreedyScheduler.activities (input order)
    specialists,           \* ConstraintChecker.specialists   (id -> Specialist)
    equipment,             \* ConstraintChecker.equipment     (id -> Equipment)
    travel_periods,        \* ConstraintChecker.travel_periods
    start_weekday,         \* weekday of GreedyScheduler.start_date
    duration_days,         \* GreedyScheduler.duration_days
    booked_slots,          \* SchedulerState.booked_slots
    specialist_bookings,   \* SchedulerState.specialist_bookings
    equipment_bookings,    \* SchedulerState.equipment_bookings
    failed_activities,     \* SchedulerState.failed_activities
    activity_occurrences,  \* SchedulerState.activity_occurrences
    daily_counts,          \* SlotScorer.daily_counts
    weekly_patterns,       \* SlotScorer.weekly_patterns
    pc,                    \* position inside schedule()
    act_index,             \* index into sorted_activities of the running loop
    occurrence_index,      \* loop variable of _schedule_activity
    scheduled,             \* local "scheduled" of _backfill_failed_activities
    missing,               \* local "missing" of _backfill_failed_activities
    missing_left,          \* iterations left of "for _ in range(missing)"
    light_days             \* local "light_days" of _backfill_failed_activities

vars == <<activities, specialists, equipment, travel_periods, start_weekday,
          duration_days, booked_slots, specialist_bookings, equipment_bookings,
          failed_activities, activity_occurrences, daily_counts,
          weekly_patterns, pc, act_index, occurrence_index, scheduled,
          missing, missing_left, light_days>>

----------------------------------------------------------------------------
(* Bounds of the model *)

MaxActs == 2

(* Program constants *)

MinutesPerDay == 1440
NoneTime == -1
DefaultFirstHour == 6
DefaultLastHour == 20
LightDayThreshold == 15

HM(h, m) == h * 60 + m

----------------------------------------------------------------------------
(* Generic helpers *)

Max2(a, b) == IF a >= b THEN a ELSE b
Min2(a, b) == IF a <= b THEN a ELSE b

SeqToSet(s) == {s[i] : i \in 1..Len(s)}

RECURSIVE ConcatAll(_)
ConcatAll(ss) == IF ss = <<>> THEN <<>> ELSE Head(ss) \o ConcatAll(Tail(ss))

RECURSIVE CountIn(_, _)
CountIn(s, x) ==
    IF s = <<>> THEN 0
    ELSE (IF Head(s) = x THEN 1 ELSE 0) + CountIn(Tail(s), x)

(* sorted(..., key=...) of Python: a stable ascending sort.  Key is a      *)
(* function over the elements; the element at index j goes after the       *)
(* elements of smaller key and after the earlier elements of equal key.    *)
(* The sequence and the key are bound once (t, k) and then only looked up. *)
StableSortByKey(s, key) ==
    LET Before(t, k, i, j) ==
            \/ k[t[i]] < k[t[j]]
            \/ k[t[i]] = k[t[j]] /\ i < j
        Rank(t, k, j) ==
            Cardinality({i \in 1..Len(t) : Before(t, k, i, j)}) + 1
        Sorted(t, k) ==
            [p \in 1..Len(t) |-> t[CHOOSE j \in 1..Len(t) : Rank(t, k, j) = p]]
    IN  CHOOSE r \in {Sorted(t, k) : t \in {s}, k \in {key}} : TRUE

(* Dictionary access with a default, and dictionary update. *)
Get(d, k, default) == IF k \in DOMAIN d THEN d[k] ELSE default
Put(d, k, v) == [x \in (DOMAIN d) \cup {k} |-> IF x = k THEN v ELSE d[x]]
EmptyDict == [x \in {} |-> 0]

----------------------------------------------------------------------------
(* Dates *)

Weekday(date) == (start_weekday + date) % 7
end_date == duration_days - 1

----------------------------------------------------------------------------
(* ConstraintChecker *)

_add_minutes_to_time(t, minutes) == (t + minutes) % MinutesPerDay

(* Ranges that touch at an end point taken as overlapping. *)
_times_overlap_touching(start1, end1, start2, end2) ==
    start1 <= end2 /\ start2 <= end1

_times_overlap(start1, end1, start2, end2) == start1 < end2 /\ start2 < end1

HasWindow(activity) ==
    activity.time_window_start # NoneTime /\ activity.time_window_end # NoneTime

Violation(kind, activity, date, start_time) ==
    [constraint_type |-> kind, activity_id |-> activity.id,
     date |-> date, start_time |-> start_time]

NoViolation == [constraint_type |-> "none", activity_id |-> "",
                date |-> 0, start_time |-> 0]

SlotEnd(slot) == _add_minutes_to_time(slot.start_time, slot.duration_minutes)

ViolatesTimeWindow(activity, start_time) ==
    /\ HasWindow(activity)
    /\ \/ start_time < activity.time_window_start
       \/ _add_minutes_to_time(start_time, activity.duration_minutes)
              > activity.time_window_end

(* Only the bookings that share a specialist or an equipment compared. *)
_check_overlap_shared_only(activity, date, start_time, slots) ==
    LET end_time == _add_minutes_to_time(start_time, activity.duration_minutes)
    IN  IF \E i \in 1..Len(slots) :
               /\ slots[i].date = date
               /\ \/ /\ activity.specialist_id # ""
                     /\ activity.specialist_id = slots[i].specialist_id
                  \/ SeqToSet(activity.equipment_ids)
                         \cap SeqToSet(slots[i].equipment_ids) # {}
               /\ start_time < SlotEnd(slots[i])
               /\ slots[i].start_time < end_time
        THEN Violation("overlap", activity, date, start_time)
        ELSE NoViolation

_check_overlap(activity, date, start_time, slots) ==
    LET end_time == _add_minutes_to_time(start_time, activity.duration_minutes)
    IN  IF \E i \in 1..Len(slots) :
               /\ slots[i].date = date
               /\ start_time < SlotEnd(slots[i])
               /\ slots[i].start_time < end_time
        THEN Violation("overlap", activity, date, start_time)
        ELSE NoViolation

(* _check_specialist once the specialist has been found. *)
_check_known_specialist(activity, date, start_time) ==
    LET specialist == specialists[activity.specialist_id]
        available_blocks ==
            {b \in SeqToSet(specialist.availability) :
                 b.day_of_week = Weekday(date)}
        end_time == _add_minutes_to_time(start_time, activity.duration_minutes)
    IN  IF date \in specialist.days_off
        THEN Violation("specialist", activity, date, start_time)
        ELSE IF available_blocks = {}
        THEN Violation("specialist", activity, date, start_time)
        ELSE IF \E b \in available_blocks :
                    b.start_time <= start_time /\ end_time <= b.end_time
        THEN NoViolation
        ELSE Violation("specialist", activity, date, start_time)

(* A specialist that is not found taken as no constraint. *)
_check_specialist_skip_unknown(activity, date, start_time) ==
    IF activity.specialist_id \notin DOMAIN specialists
    THEN NoViolation
    ELSE _check_known_specialist(activity, date, start_time)

_check_specialist(activity, date, start_time) ==
    IF activity.specialist_id \notin DOMAIN specialists
    THEN Violation("specialist", activity, date, start_time)
    ELSE _check_known_specialist(activity, date, start_time)

(* concurrent_count of _check_equipment: the bookings of the date that     *)
(* list the equipment and overlap [start_time, end_time).                  *)
concurrent_count(equip_id, date, start_time, end_time, slots) ==
    Cardinality({i \in 1..Len(slots) :
        /\ equip_id \in SeqToSet(slots[i].equipment_ids)
        /\ slots[i].date = date
        /\ _times_overlap(start_time, end_time,
                          slots[i].start_time, SlotEnd(slots[i]))})

(* What the loop body of _check_equipment finds for one equipment id:      *)
(* "unknown", "maintenance", "capacity" or "ok".                           *)
EquipmentFinding(equip_id, activity, date, start_time, slots) ==
    LET end_time == _add_minutes_to_time(start_time, activity.duration_minutes)
    IN  IF equip_id \notin DOMAIN equipment THEN "unknown"
        ELSE
          LET equip == equipment[equip_id]
          IN  IF \E w \in SeqToSet(equip.maintenance_windows) :
                     /\ w.start_date <= date /\ date <= w.end_date
                     /\ \/ w.start_time = NoneTime \/ w.end_time = NoneTime
                        \/ (start_time < w.end_time /\ w.start_time < end_time)
              THEN "maintenance"
              ELSE IF concurrent_count(equip_id, date, start_time, end_time,
                                       slots) >= equip.max_concurrent_users
              THEN "capacity"
              ELSE "ok"

_check_equipment(activity, date, start_time, slots) ==
    IF \E i \in 1..Len(activity.equipment_ids) :
           EquipmentFinding(activity.equipment_ids[i], activity, date,
                            start_time, slots) # "ok"
    THEN Violation("equipment", activity, date, start_time)
    ELSE NoViolation

_check_travel_any_period(activity, date) ==
    IF \E i \in 1..Len(travel_periods) :
           /\ travel_periods[i].start_date <= date
           /\ date <= travel_periods[i].end_date
           /\ ~activity.remote_capable
    THEN Violation("travel", activity, date, 0)
    ELSE NoViolation

_check_travel(activity, date) ==
    IF \E i \in 1..Len(travel_periods) :
           /\ travel_periods[i].start_date <= date
           /\ date <= travel_periods[i].end_date
           /\ travel_periods[i].remote_activities_only
           /\ ~activity.remote_capable
    THEN Violation("travel", activity, date, 0)
    ELSE NoViolation

(* The specialist rule consulted before the overlap rule. *)
check_time_slot_specialist_first(activity, date, start_time, slots) ==
    IF ViolatesTimeWindow(activity, start_time)
    THEN Violation("time_window", activity, date, start_time)
    ELSE IF activity.specialist_id # ""
            /\ _check_specialist(activity, date, start_time) # NoViolation
    THEN _check_specialist(activity, date, start_time)
    ELSE IF _check_overlap(activity, date, start_time, slots) # NoViolation
    THEN _check_overlap(activity, date, start_time, slots)
    ELSE IF activity.equipment_ids # <<>>
            /\ _check_equipment(activity, date, start_time, slots) # NoViolation
    THEN _check_equipment(activity, date, start_time, slots)
    ELSE _check_travel(activity, date)

check_time_slot(activity, date, start_time, slots) ==
    IF ViolatesTimeWindow(activity, start_time)
    THEN Violation("time_window", activity, date, start_time)
    ELSE IF _check_overlap(activity, date, start_time, slots) # NoViolation
    THEN _check_overlap(activity, date, start_time, slots)
    ELSE IF activity.specialist_id # ""
            /\ _check_specialist(activity, date, start_time) # NoViolation
    THEN _check_specialist(activity, date, start_time)
    ELSE IF activity.equipment_ids # <<>>
            /\ _check_equipment(activity, date, start_time, slots) # NoViolation
    THEN _check_equipment(activity, date, start_time, slots)
    ELSE _check_travel(activity, date)

----------------------------------------------------------------------------
(* SlotScorer.  Scores are kept exact: a score x is represented by the     *)
(* integer x * ScoreUnit(activity), where ScoreUnit is 2 * window_duration^2 *)
(* for an activity with a window and 2 otherwise, which makes every term   *)
(* of score_slot an integer.  Scores are only compared between candidates  *)
(* of one activity.                                                        *)

WindowDuration(activity) ==
    activity.time_window_end - activity.time_window_start

ScoreUnit(activity) ==
    IF HasWindow(activity) /\ WindowDuration(activity) > 0
    THEN 2 * WindowDuration(activity) * WindowDuration(activity)
    ELSE 2

(* activity.id[:3] *)
Prefix3(id) ==
    CASE id \in {"act_001", "act_002", "act_003", "act_004",
                  "act_need_spec_001"} -> "act"
      [] id = "med_002" -> "med"
      [] id = "weekly_test" -> "wee"
      [] id = "monthly_test" -> "mon"
      [] id = "custom_test" -> "cus"
      [] id = "daily_test" -> "dai"
      [] id \in {"act_high_freq_001", "act_short_window"} -> "act"
      [] id \in {"p3_act_00", "p3_act_01", "p3_act_02", "p3_act_03",
                  "p3_act_04", "p3_act_05", "p3_act_06", "p3_act_07",
                  "p3_act_08", "p3_act_09"} -> "p3_"
      [] id = "p1_test" -> "p1_"
      [] id = "p2_test" -> "p2_"
      [] id = "daily_specialist_activity" -> "dai"
      [] id = "maintenance_test_activity" -> "mai"
      [] id = "non_remote_activity" -> "non"
      [] id = "remote_activity" -> "rem"
      [] OTHER -> id

_score_time_preference(activity, start_time) ==
    LET U == ScoreUnit(activity)
        hour == start_time \div 60
    IN  IF HasWindow(activity)
        THEN IF WindowDuration(activity) <= 0 THEN 5 * U
             ELSE LET off == 2 * (start_time - activity.time_window_start)
                                - WindowDuration(activity)
                  IN  Max2(5 * U, 10 * U - 10 * off * off)
        ELSE IF 6 <= hour /\ hour < 9 THEN 8 * U
        ELSE IF 9 <= hour /\ hour < 17 THEN 7 * U
        ELSE IF 17 <= hour /\ hour < 20 THEN 6 * U
        ELSE 4 * U

_score_grouping(activity, date, slots) ==
    LET same_type_count ==
            Cardinality({i \in 1..Len(slots) :
                /\ slots[i].date = date
                /\ Prefix3(activity.id) = Prefix3(slots[i].activity_id)})
    IN  Min2(2, same_type_count) * ScoreUnit(activity)

SameDayCount(date, slots) ==
    Cardinality({i \in 1..Len(slots) : slots[i].date = date})

_score_overcrowding(activity, date, slots) ==
    LET same_day_count == SameDayCount(date, slots)
        U == ScoreUnit(activity)
    IN  IF same_day_count <= 3 THEN 0
        ELSE IF same_day_count = 4 THEN 0 - (U \div 2)
        ELSE IF same_day_count = 5 THEN 0 - U
        ELSE 0 - 2 * U

(* _score_consistency as a function of self.weekly_patterns. *)
_score_consistency_with(patterns, activity, date) ==
    LET past_weekdays == Get(patterns, activity.id, <<>>)
        same_weekday_count == CountIn(past_weekdays, Weekday(date))
        U == ScoreUnit(activity)
    IN  IF same_weekday_count >= 2 THEN 2 * U
        ELSE IF same_weekday_count = 1 THEN U
        ELSE 0

_score_consistency(activity, date) ==
    _score_consistency_with(weekly_patterns, activity, date)

_score_day_preference(activity, date) ==
    IF activity.frequency.preferred_days # <<>>
       /\ Weekday(date) \in SeqToSet(activity.frequency.preferred_days)
    THEN ScoreUnit(activity)
    ELSE 0

score_slot(activity, date, start_time, slots) ==
    Max2(0, Min2(10 * ScoreUnit(activity),
          _score_time_preference(activity, start_time)
        + _score_grouping(activity, date, slots)
        + _score_overcrowding(activity, date, slots)
        + _score_consistency(activity, date)
        + _score_day_preference(activity, date)))

(* score_slot as a function of self.weekly_patterns, the only scorer state *)
(* it reads.                                                               *)
score_slot_with(patterns, activity, date, start_time, slots) ==
    Max2(0, Min2(10 * ScoreUnit(activity),
          _score_time_preference(activity, start_time)
        + _score_grouping(activity, date, slots)
        + _score_overcrowding(activity, date, slots)
        + _score_consistency_with(patterns, activity, date)
        + _score_day_preference(activity, date)))

----------------------------------------------------------------------------
(* GreedyScheduler: ordering, occurrence counts, candidate generation *)

frequency_importance(activity) ==
    CASE activity.frequency.pattern = "Daily" -> 3
      [] activity.frequency.pattern = "Weekly" -> 2
      [] activity.frequency.pattern = "Monthly" -> 1
      [] OTHER -> 0

(* The priority alone as sort key. *)
SortKeyPriorityOnly(activity) == activity.priority * 4

(* The sort key (priority, -frequency_importance) as one integer that      *)
(* orders the same way.                                                    *)
SortKey(activity) == activity.priority * 4 + (3 - frequency_importance(activity))

_sort_activities(acts) ==
    StableSortByKey(acts, [a \in SeqToSet(acts) |-> SortKey(a)])

sorted_activities == _sort_activities(activities)

(* Weekly taken as once per week, whatever the count. *)
_calculate_required_occurrences_once(activity) ==
    LET freq == activity.frequency
    IN  CASE freq.pattern = "Daily" -> duration_days
          [] freq.pattern = "Weekly" -> duration_days \div 7
          [] freq.pattern = "Monthly" -> (duration_days \div 30) * freq.count
          [] freq.pattern = "Custom" ->
                 IF freq.interval_days # 0
                 THEN duration_days \div freq.interval_days
                 ELSE freq.count
          [] OTHER -> 0

_calculate_required_occurrences(activity) ==
    LET freq == activity.frequency
    IN  CASE freq.pattern = "Daily" -> duration_days
          [] freq.pattern = "Weekly" -> (duration_days \div 7) * freq.count
          [] freq.pattern = "Monthly" -> (duration_days \div 30) * freq.count
          [] freq.pattern = "Custom" ->
                 IF freq.interval_days # 0
                 THEN duration_days \div freq.interval_days
                 ELSE freq.count
          [] OTHER -> 0

(* The candidate times of one date, in generation order. *)
CandidateTimes(activity) ==
    IF HasWindow(activity)
    THEN LET start_hour == activity.time_window_start \div 60
             end_hour == activity.time_window_end \div 60
             all == [k \in 1..(2 * (end_hour - start_hour + 1)) |->
                        HM(start_hour + ((k - 1) \div 2), 30 * ((k - 1) % 2))]
             Fits(t) ==
                 /\ activity.time_window_start <= t
                 /\ _add_minutes_to_time(t, activity.duration_minutes)
                        <= activity.time_window_end
         IN  SelectSeq(all, Fits)
    ELSE [k \in 1..(2 * (DefaultLastHour - DefaultFirstHour + 1)) |->
             HM(DefaultFirstHour + ((k - 1) \div 2), 30 * ((k - 1) % 2))]

_generate_times_for_date(activity, date) ==
    LET times == CandidateTimes(activity)
    IN  [k \in 1..Len(times) |-> [date |-> date, start_time |-> times[k]]]

DateCount(date, slots) == SameDayCount(date, slots)

_sort_dates_by_lightness(dates, slots) ==
    StableSortByKey(dates, [d \in SeqToSet(dates) |-> DateCount(d, slots)])

(* Backup dates taken at the start of each period, the offset dropped. *)
BackupDatesAtPeriodStart(step, offset, total, skip) ==
    LET ks == [k \in 1..total |-> k - 1]
        Keep(k) == k # skip /\ 0 <= step * k /\ step * k <= end_date
        kept == SelectSeq(ks, Keep)
    IN  [j \in 1..Len(kept) |-> step * kept[j]]

(* Dates start_date + step * k for k in 0..total-1, k # skip, that lie in  *)
(* the horizon, in increasing k.                                           *)
BackupDates(step, offset, total, skip) ==
    LET ks == [k \in 1..total |-> k - 1]
        Keep(k) == k # skip /\ 0 <= step * k + offset
                            /\ step * k + offset <= end_date
        kept == SelectSeq(ks, Keep)
    IN  [j \in 1..Len(kept) |-> step * kept[j] + offset]

CandidateDates(activity, occ) ==
    LET freq == activity.frequency
    IN  CASE freq.pattern = "Daily" ->
                 IF occ <= end_date THEN <<occ>> ELSE <<>>
          [] freq.pattern = "Weekly" ->
                 LET week_number == occ \div freq.count
                     within_week_index == occ % freq.count
                     target_weekday ==
                         IF freq.preferred_days # <<>>
                         THEN freq.preferred_days[
                                 (within_week_index % Len(freq.preferred_days)) + 1]
                         ELSE within_week_index % 5
                     week_start == 7 * week_number
                     days_to_add == (target_weekday - Weekday(week_start) + 7) % 7
                     primary_date == week_start + days_to_add
                 IN  (IF primary_date <= end_date THEN <<primary_date>> ELSE <<>>)
                     \o BackupDates(7, days_to_add, duration_days \div 7,
                                    week_number)
          [] freq.pattern = "Monthly" ->
                 LET month_number == occ \div freq.count
                     primary_date == 30 * month_number
                 IN  (IF primary_date <= end_date THEN <<primary_date>> ELSE <<>>)
                     \o BackupDates(30, 0, duration_days \div 30, month_number)
          [] freq.pattern = "Custom" ->
                 IF freq.interval_days # 0
                    /\ occ * freq.interval_days <= end_date
                 THEN <<occ * freq.interval_days>>
                 ELSE <<>>
          [] OTHER -> <<>>

_generate_candidate_slots(activity, occ, slots) ==
    LET dates == CandidateDates(activity, occ)
        ordered == IF activity.priority >= 3
                   THEN _sort_dates_by_lightness(dates, slots)
                   ELSE dates
    IN  CHOOSE r \in
            {ConcatAll([k \in 1..Len(o) |->
                           _generate_times_for_date(activity, o[k])]) :
                 o \in {ordered}} : TRUE

(* A date that has reached the threshold still counted as light. *)
_find_light_days_inclusive(slots) ==
    LET all_days == [k \in 1..duration_days |-> k - 1]
        Light(d) == DateCount(d, slots) <= LightDayThreshold
    IN  _sort_dates_by_lightness(SelectSeq(all_days, Light), slots)

_find_light_days(slots) ==
    LET all_days == [k \in 1..duration_days |-> k - 1]
        Light(d) == DateCount(d, slots) < LightDayThreshold
    IN  _sort_dates_by_lightness(SelectSeq(all_days, Light), slots)

----------------------------------------------------------------------------
(* SchedulerState and SlotScorer updates *)

TimeSlot(activity, cand) ==
    [activity_id |-> activity.id, date |-> cand.date,
     start_time |-> cand.start_time,
     duration_minutes |-> activity.duration_minutes,
     specialist_id |-> activity.specialist_id,
     equipment_ids |-> activity.equipment_ids]

RECURSIVE AppendToEach(_, _, _)
AppendToEach(index, keys, slot) ==
    IF keys = <<>> THEN index
    ELSE AppendToEach(Put(index, Head(keys),
                          Append(Get(index, Head(keys), <<>>), slot)),
                      Tail(keys), slot)

(* The slot put at the head of the log instead of its end. *)
add_booking_at_head(slot) ==
    /\ booked_slots' = <<slot>> \o booked_slots
    /\ specialist_bookings' =
           IF slot.specialist_id # ""
           THEN Put(specialist_bookings, slot.specialist_id,
                    Append(Get(specialist_bookings, slot.specialist_id, <<>>),
                           slot))
           ELSE specialist_bookings
    /\ equipment_bookings' =
           AppendToEach(equipment_bookings, slot.equipment_ids, slot)
    /\ activity_occurrences' =
           Put(activity_occurrences, slot.activity_id,
               Get(activity_occurrences, slot.activity_id, 0) + 1)

(* SchedulerState.add_booking followed by SlotScorer.record_booking, the   *)
(* pair of calls that every booking consists of.                           *)
add_booking(slot) ==
    /\ booked_slots' = Append(booked_slots, slot)
    /\ specialist_bookings' =
           IF slot.specialist_id # ""
           THEN Put(specialist_bookings, slot.specialist_id,
                    Append(Get(specialist_bookings, slot.specialist_id, <<>>),
                           slot))
           ELSE specialist_bookings
    /\ equipment_bookings' =
           AppendToEach(equipment_bookings, slot.equipment_ids, slot)
    /\ activity_occurrences' =
           Put(activity_occurrences, slot.activity_id,
               Get(activity_occurrences, slot.activity_id, 0) + 1)

record_booking(activity, date) ==
    /\ daily_counts' = Put(daily_counts, date, Get(daily_counts, date, 0) + 1)
    /\ weekly_patterns' =
           Put(weekly_patterns, activity.id,
               Append(Get(weekly_patterns, activity.id, <<>>), Weekday(date)))

(* One attempt counted per occurrence, whatever the number of rejected     *)
(* candidates.                                                             *)
record_failures_once(failed, activity, violations) ==
    IF violations = <<>> THEN failed
    ELSE LET old == Get(failed, activity.id,
                        [attempts |-> 0, violations |-> <<>>])
         IN  Put(failed, activity.id,
                 [attempts |-> old.attempts + 1,
                  violations |-> old.violations \o violations])

(* SchedulerState.record_failure applied to the violations of the rejected *)
(* candidates of one occurrence, in candidate order.                       *)
record_failures(failed, activity, violations) ==
    IF violations = <<>> THEN failed
    ELSE LET old == Get(failed, activity.id,
                        [attempts |-> 0, violations |-> <<>>])
         IN  Put(failed, activity.id,
                 [attempts |-> old.attempts + Len(violations),
                  violations |-> old.violations \o violations])

(* A counter that is first read taken as 1. *)
get_occurrence_count_from_one(activity_id) ==
    Get(activity_occurrences, activity_id, 1)

get_occurrence_count(activity_id) == Get(activity_occurrences, activity_id, 0)

----------------------------------------------------------------------------
(* Candidate evaluation: the loop shared by _find_best_slot and the        *)
(* backfill pass.                                                          *)

IsValid(activity, cand, slots) ==
    check_time_slot(activity, cand.date, cand.start_time, slots) = NoViolation

ValidCandidates(activity, cands, slots) ==
    LET Ok(c) == IsValid(activity, c, slots)
    IN  SelectSeq(cands, Ok)

RejectedViolations(activity, cands, slots) ==
    LET IsViolation(v) == v # NoViolation
    IN  SelectSeq([k \in 1..Len(cands) |->
                      check_time_slot(activity, cands[k].date,
                                      cands[k].start_time, slots)],
                  IsViolation)

(* The last candidate of maximal score taken. *)
BestCandidateLast(activity, valid, slots) ==
    LET sc == [k \in 1..Len(valid) |->
                  score_slot(activity, valid[k].date, valid[k].start_time, slots)]
        best == CHOOSE k \in 1..Len(valid) :
                    /\ \A j \in 1..Len(valid) : sc[j] <= sc[k]
                    /\ \A j \in (k + 1)..Len(valid) : sc[j] < sc[k]
    IN  valid[best]

(* scored_slots.sort(reverse=True, key=score); scored_slots[0]: the sort   *)
(* is stable, so the first candidate of maximal score is taken.            *)
BestCandidate(activity, valid, slots) ==
    LET sc == [k \in 1..Len(valid) |->
                  score_slot(activity, valid[k].date, valid[k].start_time, slots)]
        best == CHOOSE k \in 1..Len(valid) :
                    /\ \A j \in 1..Len(valid) : sc[j] <= sc[k]
                    /\ \A j \in 1..(k - 1) : sc[j] < sc[k]
    IN  valid[best]

----------------------------------------------------------------------------
(* Inputs *)

Frequency(pattern, count, preferred_days, interval_days) ==
    [pattern |-> pattern, count |-> count,
     preferred_days |-> preferred_days, interval_days |-> interval_days]

Activity(id, priority, frequency, duration, ws, we, spec, equip, remote) ==
    [id |-> id, priority |-> priority, frequency |-> frequency,
     duration_minutes |-> duration, time_window_start |-> ws,
     time_window_end |-> we, specialist_id |-> spec,
     equipment_ids |-> equip, remote_capable |-> remote]

AvailabilityBlock(day, start, end) ==
    [day_of_week |-> day, start_time |-> start, end_time |-> end]

MaintenanceWindow(d0, d1, start, end) ==
    [start_date |-> d0, end_date |-> d1, start_time |-> start, end_time |-> end]

TravelPeriod(d0, d1, remote_only) ==
    [start_date |-> d0, end_date |-> d1, remote_activities_only |-> remote_only]

Daily == Frequency("Daily", 1, <<>>, 0)

Tuesday == 1

Input(acts, specs, equip, travel, weekday, days) ==
    [activities |-> acts, specialists |-> specs, equipment |-> equip,
     travel_periods |-> travel, start_weekday |-> weekday,
     duration_days |-> days]

(* The seed scenarios: start_date 2025-12-09 (a Tuesday), 7 days. *)

S1 == Input(<<Activity("p1_test", 1, Daily, 30, HM(8, 0), HM(9, 0), "", <<>>, FALSE),
              Activity("p2_test", 2, Daily, 30, HM(8, 0), HM(9, 0), "", <<>>, FALSE)>>,
            EmptyDict, EmptyDict, <<>>, Tuesday, 7)

S2 == Input(<<Activity("daily_specialist_activity", 1, Daily, 60, NoneTime,
                       NoneTime, "spec_limited", <<>>, FALSE)>>,
            [id \in {"spec_limited"} |->
                [availability |-> <<AvailabilityBlock(0, HM(8, 0), HM(12, 0)),
                                    AvailabilityBlock(1, HM(8, 0), HM(12, 0)),
                                    AvailabilityBlock(2, HM(8, 0), HM(12, 0))>>,
                 days_off |-> {}]],
            EmptyDict, <<>>, Tuesday, 7)

S3 == Input(<<Activity("maintenance_test_activity", 1, Daily, 60, HM(10, 0),
                       HM(12, 0), "", <<"equip_maintenance">>, FALSE)>>,
            EmptyDict,
            [id \in {"equip_maintenance"} |->
                [maintenance_windows |->
                     <<MaintenanceWindow(1, 1, HM(10, 0), HM(12, 0))>>,
                 max_concurrent_users |-> 1]],
            <<>>, Tuesday, 7)

S4 == Input(<<Activity("non_remote_activity", 1, Daily, 60, NoneTime, NoneTime,
                       "", <<>>, FALSE),
              Activity("remote_activity", 1, Daily, 30, NoneTime, NoneTime,
                       "", <<>>, TRUE)>>,
            EmptyDict, EmptyDict, <<TravelPeriod(4, 5, TRUE)>>, Tuesday, 7)

S4Alone == Input(<<Activity("non_remote_activity", 1, Daily, 60, NoneTime,
                            NoneTime, "", <<>>, FALSE)>>,
                 EmptyDict, EmptyDict, <<TravelPeriod(4, 5, TRUE)>>, Tuesday, 7)

(* S5: a Weekly activity, 3 per week on Mon/Wed/Fri. *)
S5 == Input(<<Activity("weekly_test", 1, Frequency("Weekly", 3, <<0, 2, 4>>, 0),
                       45, NoneTime, NoneTime, "", <<>>, FALSE)>>,
            EmptyDict, EmptyDict, <<>>, Tuesday, 7)

(* A Daily activity with no window and no resources, alone. *)
DailyTest == Input(<<Activity("daily_test", 1, Daily, 15, NoneTime, NoneTime,
                              "", <<>>, FALSE)>>,
                   EmptyDict, EmptyDict, <<>>, Tuesday, 7)

(* S6: ten Daily priority-3 activities on one 09:00-10:00 window. *)
S6Ids == <<"p3_act_00", "p3_act_01", "p3_act_02", "p3_act_03", "p3_act_04",
           "p3_act_05", "p3_act_06", "p3_act_07", "p3_act_08", "p3_act_09">>

S6 == Input([i \in 1..10 |-> Activity(S6Ids[i], 3, Daily, 30, HM(9, 0),
                                      HM(10, 0), "", <<>>, FALSE)],
            EmptyDict, EmptyDict, <<>>, Tuesday, 7)

(* A Daily activity over LightDayThreshold + 1 days whose specialist works *)
(* on a single date of the horizon, 06:00-21:00: every occurrence but one  *)
(* is left to Phase 2, which can only use that date.                       *)
LightDayCap ==
    Input(<<Activity("act_need_spec_001", 1, Daily, 30, NoneTime, NoneTime,
                     "spec_one_day", <<>>, FALSE)>>,
          [id \in {"spec_one_day"} |->
              [availability |-> <<AvailabilityBlock(3, HM(6, 0), HM(21, 0))>>,
               days_off |-> {9}]],
          EmptyDict, <<>>, Tuesday, LightDayThreshold + 1)

(* The specialists of the resource table. *)
PoolSpecialists ==
    [id \in {"spec_am", "spec_pm"} |->
        IF id = "spec_am"
        THEN [availability |-> <<AvailabilityBlock(0, HM(8, 0), HM(12, 0)),
                                 AvailabilityBlock(1, HM(8, 0), HM(12, 0)),
                                 AvailabilityBlock(2, HM(8, 0), HM(12, 0))>>,
              days_off |-> {}]
        ELSE [availability |-> [d \in 1..7 |->
                                   AvailabilityBlock(d - 1, HM(16, 0), HM(23, 0))],
              days_off |-> {3}]]

(* Horizons of several weeks and months: one Weekly, Monthly or Custom     *)
(* activity alone, over 14 and over 60 days.                               *)
HorizonActivities ==
    { Activity("weekly_test", 1, Frequency("Weekly", 1, <<>>, 0), 45, NoneTime,
               NoneTime, "", <<>>, FALSE),
      Activity("weekly_test", 3, Frequency("Weekly", 1, <<>>, 0), 45, NoneTime,
               NoneTime, "", <<>>, FALSE),
      Activity("weekly_test", 3, Frequency("Weekly", 2, <<0, 2>>, 0), 45,
               NoneTime, NoneTime, "", <<>>, FALSE),
      Activity("weekly_test", 2, Frequency("Weekly", 1, <<4>>, 0), 60,
               NoneTime, NoneTime, "spec_pm", <<>>, FALSE),
      Activity("monthly_test", 5, Frequency("Monthly", 2, <<>>, 0), 30,
               NoneTime, NoneTime, "", <<>>, FALSE),
      Activity("custom_test", 4, Frequency("Custom", 1, <<>>, 3), 90, NoneTime,
               NoneTime, "", <<>>, FALSE) }

HorizonDays == {14, 60}

HorizonInputs ==
    { Input(<<a>>, PoolSpecialists, EmptyDict, <<>>, Tuesday, days) :
          a \in HorizonActivities, days \in HorizonDays }

(* MaintenanceWindow construction: the arguments a caller may pass and the *)
(* windows the class accepts.  validate_date_range is its only validator.  *)
validate_date_range(w) == w.end_date >= w.start_date

MaintenanceWindowArguments ==
    { MaintenanceWindow(1, 1, HM(10, 0), HM(12, 0)),
      MaintenanceWindow(1, 1, NoneTime, NoneTime),
      MaintenanceWindow(1, 1, HM(10, 0), NoneTime),
      MaintenanceWindow(1, 1, NoneTime, HM(11, 0)),
      MaintenanceWindow(2, 1, HM(10, 0), HM(12, 0)) }

AcceptedMaintenanceWindows ==
    {w \in MaintenanceWindowArguments : validate_date_range(w)}

MaintenanceInputs ==
    { Input(<<Activity("maintenance_test_activity", 1, Daily, 60, HM(10, 0),
                       HM(12, 0), "", <<"equip_maintenance">>, FALSE)>>,
            EmptyDict,
            [id \in {"equip_maintenance"} |->
                [maintenance_windows |-> <<w>>, max_concurrent_users |-> 1]],
            <<>>, Tuesday, 7) : w \in AcceptedMaintenanceWindows }

(* test_high_frequency_activity: a Weekly activity 7 times per week, with  *)
(* window 06:00-21:00 and no preferred days, over 7 days.                  *)
HighFrequency ==
    Input(<<Activity("act_high_freq_001", 1, Frequency("Weekly", 7, <<>>, 0),
                     30, HM(6, 0), HM(21, 0), "", <<>>, TRUE)>>,
          EmptyDict, EmptyDict, <<>>, Tuesday, 7)

(* test_all_specialists_unavailable: a Daily activity whose specialist has *)
(* no availability block.                                                  *)
SpecialistUnavailable ==
    Input(<<Activity("act_need_spec_001", 1, Daily, 60, HM(9, 0), HM(10, 0),
                     "spec_unavail_001", <<>>, FALSE)>>,
          [id \in {"spec_unavail_001"} |->
              [availability |-> <<>>, days_off |-> {}]],
          EmptyDict, <<>>, Tuesday, 7)

(* A Daily activity whose window (09:00-10:00) is shorter than its         *)
(* duration (90): validate_time_window accepts it, and no time of the      *)
(* window fits.  It comes alone and after a Daily activity that books.     *)
ShortWindowActivity ==
    Activity("act_short_window", 2, Daily, 90, HM(9, 0), HM(10, 0), "", <<>>,
             FALSE)

ShortWindow ==
    Input(<<ShortWindowActivity>>, EmptyDict, EmptyDict, <<>>, Tuesday, 7)

ShortWindowSecond ==
    Input(<<Activity("daily_test", 1, Daily, 15, NoneTime, NoneTime, "", <<>>,
                     FALSE),
            ShortWindowActivity>>,
          EmptyDict, EmptyDict, <<>>, Tuesday, 7)

Scenarios ==
    {S1, S2, S3, S4, S4Alone, S5, S6, DailyTest, LightDayCap, HighFrequency,
     SpecialistUnavailable, ShortWindow, ShortWindowSecond}
        \cup HorizonInputs \cup MaintenanceInputs

(* A resource table and a pool of activities from which further inputs are *)
(* drawn: every list of at most MaxActs pool activities, the activity at   *)
(* position i carrying the i-th id.                                        *)

PoolEquipment ==
    [id \in {"equip_a", "equip_b"} |->
        IF id = "equip_a"
        THEN [maintenance_windows |->
                  <<MaintenanceWindow(1, 1, HM(10, 0), HM(12, 0))>>,
              max_concurrent_users |-> 2]
        ELSE [maintenance_windows |->
                  <<MaintenanceWindow(2, 2, NoneTime, NoneTime),
                    MaintenanceWindow(0, 6, HM(22, 0), HM(23, 0))>>,
              max_concurrent_users |-> 1]]

PoolTravel == <<TravelPeriod(4, 5, TRUE), TravelPeriod(0, 0, FALSE)>>

PoolIds == <<"act_001", "med_002", "act_003", "act_004">>

Pool(id) ==
    { Activity(id, 1, Daily, 30, HM(8, 0), HM(9, 0), "", <<>>, FALSE),
      Activity(id, 2, Daily, 60, NoneTime, NoneTime, "spec_am", <<>>, FALSE),
      Activity(id, 1, Daily, 60, HM(10, 0), HM(12, 0), "", <<"equip_a">>, TRUE),
      Activity(id, 3, Daily, 480, NoneTime, NoneTime, "spec_pm",
               <<"equip_b">>, TRUE),
      Activity(id, 2, Daily, 300, HM(18, 0), HM(23, 0), "spec_pm",
               <<"equip_b">>, FALSE),
      Activity(id, 3, Frequency("Weekly", 2, <<0, 2>>, 0), 45, NoneTime,
               NoneTime, "", <<>>, FALSE),
      Activity(id, 4, Frequency("Custom", 1, <<>>, 3), 90, NoneTime, NoneTime,
               "", <<"equip_a", "equip_b">>, TRUE),
      Activity(id, 5, Frequency("Monthly", 1, <<>>, 0), 30, NoneTime, NoneTime,
               "", <<>>, TRUE),
      Activity(id, 2, Daily, 60, NoneTime, NoneTime, "spec_unknown", <<>>, TRUE),
      Activity(id, 2, Daily, 60, NoneTime, NoneTime, "",
               <<"equip_a", "equip_unknown">>, TRUE) }

(* Four activities declared in an order that differs from the order of     *)
(* schedule() on each key: a Weekly and two Daily activities of priority 3 *)
(* around a Daily activity of priority 1, the Daily ones on one window.    *)
OrderingMix ==
    Input(<<Activity("act_001", 3, Frequency("Weekly", 2, <<0, 2>>, 0), 45,
                     NoneTime, NoneTime, "", <<>>, FALSE),
            Activity("med_002", 3, Daily, 30, HM(8, 0), HM(9, 0), "", <<>>,
                     FALSE),
            Activity("act_003", 1, Daily, 30, HM(8, 0), HM(9, 0), "", <<>>,
                     FALSE),
            Activity("act_004", 3, Daily, 30, HM(8, 0), HM(9, 0), "", <<>>,
                     FALSE)>>,
          PoolSpecialists, PoolEquipment, PoolTravel, Tuesday, 7)

PoolActivityLists ==
    UNION { {acts \in [1..n -> UNION {Pool(PoolIds[i]) : i \in 1..n}] :
                \A i \in 1..n : acts[i].id = PoolIds[i]} : n \in 0..MaxActs }

PoolInputs ==
    { Input(acts, PoolSpecialists, PoolEquipment, PoolTravel, Tuesday, 7) :
          acts \in PoolActivityLists }

Inputs == Scenarios \cup PoolInputs \cup {OrderingMix}

InputIs(inp) ==
    /\ activities = inp.activities
    /\ specialists = inp.specialists
    /\ equipment = inp.equipment
    /\ travel_periods = inp.travel_periods
    /\ start_weekday = inp.start_weekday
    /\ duration_days = inp.duration_days

----------------------------------------------------------------------------
(* schedule() *)

Init ==
    /\ \E inp \in Inputs : InputIs(inp)
    /\ booked_slots = <<>>
    /\ specialist_bookings = EmptyDict
    /\ equipment_bookings = EmptyDict
    /\ failed_activities = EmptyDict
    /\ activity_occurrences = EmptyDict
    /\ daily_counts = EmptyDict
    /\ weekly_patterns = EmptyDict
    /\ pc = "phase1"
    /\ act_index = 1
    /\ occurrence_index = 0
    /\ scheduled = 0
    /\ missing = 0
    /\ missing_left = 0
    /\ light_days = <<>>

inputs == <<activities, specialists, equipment, travel_periods, start_weekday,
            duration_days>>
backfill_locals == <<scheduled, missing, missing_left, light_days>>

(* The loops run over the input list instead of the sorted one. *)
CurrentActivityUnsorted == activities[act_index]

CurrentActivity == sorted_activities[act_index]

InPhase1Occurrence ==
    /\ pc = "phase1"
    /\ act_index <= Len(activities)
    /\ occurrence_index < _calculate_required_occurrences(CurrentActivity)

Phase1Candidates ==
    _generate_candidate_slots(CurrentActivity, occurrence_index, booked_slots)

(* One iteration of the loop of _schedule_activity in which _find_best_slot *)
(* returns a slot.  The locals of the call (activity, candidates, valid,    *)
(* best, slot) are bound once each, as the code computes them once.         *)
BookOccurrence ==
    /\ InPhase1Occurrence
    /\ \E activity \in {CurrentActivity} :
       \E cands \in {_generate_candidate_slots(activity, occurrence_index,
                                                booked_slots)} :
       \E valid \in {ValidCandidates(activity, cands, booked_slots)} :
           /\ valid # <<>>
           /\ \E best \in {BestCandidate(activity, valid, booked_slots)} :
              \E slot \in {TimeSlot(activity, best)} :
                  /\ add_booking(slot)
                  /\ record_booking(activity, best.date)
           /\ \E violations \in {RejectedViolations(activity, cands, booked_slots)} :
                  failed_activities' =
                      record_failures(failed_activities, activity, violations)
    /\ occurrence_index' = occurrence_index + 1
    /\ UNCHANGED <<inputs, pc, act_index, backfill_locals>>

(* One iteration in which _find_best_slot returns None. *)
FailOccurrence ==
    /\ InPhase1Occurrence
    /\ \E activity \in {CurrentActivity} :
       \E cands \in {_generate_candidate_slots(activity, occurrence_index,
                                                booked_slots)} :
           /\ ValidCandidates(activity, cands, booked_slots) = <<>>
           /\ \E violations \in {RejectedViolations(activity, cands, booked_slots)} :
                  failed_activities' =
                      record_failures(failed_activities, activity, violations)
    /\ occurrence_index' = occurrence_index + 1
    /\ UNCHANGED <<inputs, pc, act_index, backfill_locals, booked_slots,
                   specialist_bookings, equipment_bookings,
                   activity_occurrences, daily_counts, weekly_patterns>>

(* _schedule_activity returns; the Phase-1 loop goes to the next activity. *)
NextActivity ==
    /\ pc = "phase1"
    /\ act_index <= Len(activities)
    /\ occurrence_index >= _calculate_required_occurrences(CurrentActivity)
    /\ act_index' = act_index + 1
    /\ occurrence_index' = 0
    /\ UNCHANGED <<inputs, pc, backfill_locals, booked_slots,
                   specialist_bookings, equipment_bookings, failed_activities,
                   activity_occurrences, daily_counts, weekly_patterns>>

(* Phase 1 is over: _backfill_failed_activities starts. *)
BeginBackfill ==
    /\ pc = "phase1"
    /\ act_index > Len(activities)
    /\ pc' = "phase2"
    /\ act_index' = 1
    /\ light_days' = _find_light_days(booked_slots)
    /\ UNCHANGED <<inputs, occurrence_index, scheduled, missing, missing_left,
                   booked_slots, specialist_bookings, equipment_bookings,
                   failed_activities, activity_occurrences, daily_counts,
                   weekly_patterns>>

(* missing = required - scheduled *)
MissingOccurrencesAll(required, count) == required

MissingOccurrences(required, count) == required - count

(* The head of the Phase-2 loop body: required, scheduled and missing of   *)
(* the next activity.  get_occurrence_count reads a defaultdict, which     *)
(* creates the counter of an activity that has none.                       *)
BackfillHead(skip) ==
    /\ pc = "phase2"
    /\ act_index <= Len(activities)
    /\ \E activity \in {CurrentActivity} :
       \E required \in {_calculate_required_occurrences(activity)} :
       \E count \in {get_occurrence_count(activity.id)} :
           /\ skip = (MissingOccurrences(required, count) <= 0)
           /\ scheduled' = count
           /\ missing' = MissingOccurrences(required, count)
           /\ missing_left' = IF skip THEN 0
                                      ELSE MissingOccurrences(required, count)
           /\ activity_occurrences' = Put(activity_occurrences, activity.id, count)
           /\ pc' = IF skip THEN "phase2" ELSE "backfill"
           /\ act_index' = IF skip THEN act_index + 1 ELSE act_index
    /\ UNCHANGED <<inputs, occurrence_index, light_days, booked_slots,
                   specialist_bookings, equipment_bookings, failed_activities,
                   daily_counts, weekly_patterns>>

BackfillSkip == BackfillHead(TRUE)
BackfillEnter == BackfillHead(FALSE)

(* The candidates of the backfill of an activity: every time of every     *)
(* light day, in light-day order.                                          *)
BackfillCandidatesOf(activity) ==
    ConcatAll([k \in 1..Len(light_days) |->
                  _generate_times_for_date(activity, light_days[k])])

BackfillCandidates == BackfillCandidatesOf(CurrentActivity)

(* One iteration of "for _ in range(missing)" that books a slot; the loop  *)
(* ends with it when it was the last iteration.                            *)
BackfillBook ==
    /\ pc = "backfill"
    /\ missing_left > 0
    /\ \E activity \in {CurrentActivity} :
       \E cands \in {BackfillCandidatesOf(activity)} :
       \E valid \in {ValidCandidates(activity, cands, booked_slots)} :
           /\ valid # <<>>
           /\ \E best \in {BestCandidate(activity, valid, booked_slots)} :
              \E slot \in {TimeSlot(activity, best)} :
                  /\ add_booking(slot)
                  /\ record_booking(activity, best.date)
                  /\ \E slots \in {Append(booked_slots, slot)} :
                         light_days' = _find_light_days(slots)
    /\ missing_left' = missing_left - 1
    /\ pc' = IF missing_left = 1 THEN "phase2" ELSE "backfill"
    /\ act_index' = IF missing_left = 1 THEN act_index + 1 ELSE act_index
    /\ UNCHANGED <<inputs, occurrence_index, scheduled, missing,
                   failed_activities>>

(* The retry loop left running when no slot is found: the iteration is    *)
(* repeated in the same state.                                             *)
BackfillRetry ==
    /\ pc = "backfill"
    /\ missing_left > 0
    /\ ValidCandidates(CurrentActivity, BackfillCandidates, booked_slots) = <<>>
    /\ UNCHANGED vars

(* An iteration that finds no valid slot on the light days: break. *)
BackfillBreak ==
    /\ pc = "backfill"
    /\ missing_left > 0
    /\ \E activity \in {CurrentActivity} :
       \E cands \in {BackfillCandidatesOf(activity)} :
           ValidCandidates(activity, cands, booked_slots) = <<>>
    /\ pc' = "phase2"
    /\ act_index' = act_index + 1
    /\ UNCHANGED <<inputs, occurrence_index, backfill_locals, booked_slots,
                   specialist_bookings, equipment_bookings, failed_activities,
                   activity_occurrences, daily_counts, weekly_patterns>>

(* schedule() returns the state. *)
Finish ==
    /\ pc = "phase2"
    /\ act_index > Len(activities)
    /\ pc' = "done"
    /\ UNCHANGED <<inputs, act_index, occurrence_index, backfill_locals,
                   booked_slots, specialist_bookings, equipment_bookings,
                   failed_activities, activity_occurrences, daily_counts,
                   weekly_patterns>>

Next ==
    \/ BookOccurrence
    \/ FailOccurrence
    \/ NextActivity
    \/ BeginBackfill
    \/ BackfillSkip
    \/ BackfillEnter
    \/ BackfillBook
    \/ BackfillBreak
    \/ Finish

Spec == Init /\ [][Next]_vars

(* schedule() is one sequential call: as long as a step is possible the    *)
(* interpreter takes it.                                                   *)
FairSpec == Spec /\ WF_vars(Next)

----------------------------------------------------------------------------
(* Vocabulary of the properties *)

Bookings == 1..Len(booked_slots)

(* The end of a booking as a number of minutes after the midnight that     *)
(* starts its date: start + duration, not reduced modulo a day.            *)
EndMinute(slot) == slot.start_time + slot.duration_minutes

Disjoint(b1, b2) ==
    EndMinute(b1) <= b2.start_time \/ EndMinute(b2) <= b1.start_time

Covers(slot, t) == slot.start_time <= t /\ t < EndMinute(slot)

ShareResource(b1, b2) ==
    \/ b1.specialist_id # "" /\ b1.specialist_id = b2.specialist_id
    \/ SeqToSet(b1.equipment_ids) \cap SeqToSet(b2.equipment_ids) # {}

ActivityById(id) == CHOOSE a \in SeqToSet(activities) : a.id = id

NumBookings(id) ==
    Cardinality({i \in Bookings : booked_slots[i].activity_id = id})

NumOnDate(id, date) ==
    Cardinality({i \in Bookings : /\ booked_slots[i].activity_id = id
                                  /\ booked_slots[i].date = date})

InRemoteOnlyTravel(date) ==
    \E i \in 1..Len(travel_periods) :
        /\ travel_periods[i].remote_activities_only
        /\ travel_periods[i].start_date <= date
        /\ date <= travel_periods[i].end_date

FailuresOfKind(id, kind) ==
    LET vs == Get(failed_activities, id,
                  [attempts |-> 0, violations |-> <<>>]).violations
    IN  Cardinality({i \in 1..Len(vs) : vs[i].constraint_type = kind})

----------------------------------------------------------------------------
(* Properties *)

(* C1: any two bookings that share a specialist id or an equipment id and  *)
(* fall on the same date have disjoint intervals [start, start+duration).  *)
C1_NoResourceDoubleBooking ==
    \A i, j \in Bookings :
        (/\ i < j
         /\ booked_slots[i].date = booked_slots[j].date
         /\ ShareResource(booked_slots[i], booked_slots[j]))
            => Disjoint(booked_slots[i], booked_slots[j])

(* C2: every booking of an activity that requires a specialist names a     *)
(* known specialist, is not on one of the specialist's days off, and lies  *)
(* inside one availability block of the specialist on that weekday.        *)
C2_SpecialistAvailable ==
    \A i \in Bookings :
        LET b == booked_slots[i]
        IN  b.specialist_id # "" =>
              /\ b.specialist_id \in DOMAIN specialists
              /\ b.date \notin specialists[b.specialist_id].days_off
              /\ \E blk \in SeqToSet(specialists[b.specialist_id].availability) :
                     /\ blk.day_of_week = Weekday(b.date)
                     /\ blk.start_time <= b.start_time
                     /\ EndMinute(b) <= blk.end_time

(* C3: every booking of an activity with a time window starts at or after  *)
(* window_start and ends at or before window_end.                          *)
C3_InsideTimeWindow ==
    \A i \in Bookings :
        LET b == booked_slots[i]
            a == ActivityById(b.activity_id)
        IN  HasWindow(a) =>
              /\ b.start_time >= a.time_window_start
              /\ EndMinute(b) <= a.time_window_end

(* C4: for every equipment id e, date d and time of day t, the bookings    *)
(* that name e, are on d and cover t number at most e.max_concurrent_users. *)
C4_EquipmentCapacity ==
    \A e \in DOMAIN equipment :
        \A i \in Bookings :
            LET b == booked_slots[i]
                t == b.start_time
            IN  e \in SeqToSet(b.equipment_ids) =>
                  Cardinality({j \in Bookings :
                      /\ e \in SeqToSet(booked_slots[j].equipment_ids)
                      /\ booked_slots[j].date = b.date
                      /\ Covers(booked_slots[j], t)})
                    <= equipment[e].max_concurrent_users

(* C5: no booking intersects a maintenance window of an equipment it names: *)
(* an all-day window excludes its dates, a timed window excludes every     *)
(* interval overlapping its time range on its dates.                       *)
C5_NoMaintenanceConflict ==
    \A i \in Bookings :
        LET b == booked_slots[i]
        IN  \A k \in 1..Len(b.equipment_ids) :
              b.equipment_ids[k] \in DOMAIN equipment =>
                \A w \in SeqToSet(equipment[b.equipment_ids[k]].maintenance_windows) :
                    (w.start_date <= b.date /\ b.date <= w.end_date) =>
                        /\ w.start_time # NoneTime
                        /\ w.end_time # NoneTime
                        /\ (EndMinute(b) <= w.start_time
                            \/ w.end_time <= b.start_time)

C7_NoOverlapOnADate ==
    pc = "done" =>
        \A i, j \in Bookings :
            (i < j /\ booked_slots[i].date = booked_slots[j].date)
                => Disjoint(booked_slots[i], booked_slots[j])

(* C8: at every point an activity has at most required_occurrences         *)
(* bookings, and Phase 2 adds to an activity at most required minus the    *)
(* count it had when Phase 2 reached it.                                   *)
C8_AtMostRequired ==
    /\ \A a \in SeqToSet(activities) :
           /\ NumBookings(a.id) <= _calculate_required_occurrences(a)
           /\ get_occurrence_count(a.id) = NumBookings(a.id)
    /\ pc = "backfill" =>
           /\ NumBookings(CurrentActivity.id) - scheduled
                  <= _calculate_required_occurrences(CurrentActivity) - scheduled
           /\ NumBookings(CurrentActivity.id) - scheduled = missing - missing_left

(* C8 witness: schedule() has returned and Phase 2 has brought an activity *)
(* that Phase 1 left short up to exactly its required count.               *)
C8_Witness ==
    /\ pc = "done"
    /\ \E a \in SeqToSet(activities) :
           /\ NumBookings(a.id) = _calculate_required_occurrences(a)
           /\ a.id = sorted_activities[Len(activities)].id
           /\ missing > 0
           /\ scheduled < NumBookings(a.id)

(* C9: in scenario S1, P1 ends with 7 bookings and P2 with none, each of   *)
(* P2's 7 occurrences having failed with an overlap violation.             *)
C9_PriorityBeatsContention ==
    (pc = "done" /\ InputIs(S1)) =>
        /\ NumBookings("p1_test") = 7
        /\ NumBookings("p2_test") = 0
        /\ FailuresOfKind("p2_test", "overlap") >= 7

(* Some candidate time of the date passes all hard constraints against the *)
(* bookings made so far.                                                   *)
FeasibleOn(activity, date) ==
    \E t \in SeqToSet(CandidateTimes(activity)) :
        check_time_slot(activity, date, t, booked_slots) = NoViolation

(* C10: a Daily activity with no competing activity ends with exactly one  *)
(* booking on each date on which some candidate time passes all hard       *)
(* constraints and none elsewhere: 3 bookings in S2, 6 in S3, 5 in S4.     *)
FeasibleDate(activity, date) ==
    \E t \in SeqToSet(CandidateTimes(activity)) :
        check_time_slot(activity, date, t, <<>>) = NoViolation

C10_DailyOncePerFeasibleDate ==
    pc = "done" =>
        /\ (Len(activities) = 1 /\ activities[1].frequency.pattern = "Daily") =>
               \A d \in 0..end_date :
                   NumOnDate(activities[1].id, d) =
                       IF FeasibleDate(activities[1], d) THEN 1 ELSE 0
        /\ InputIs(S2) => NumBookings("daily_specialist_activity") = 3
        /\ InputIs(S3) => NumBookings("maintenance_test_activity") = 6
        /\ (InputIs(S4) \/ InputIs(S4Alone)) =>
               NumBookings("non_remote_activity") = 5

(* A step of Phase 1 that books a slot, and the slot it books. *)
Phase1Books ==
    /\ pc = "phase1"
    /\ Len(booked_slots') = Len(booked_slots) + 1

NewBooking == booked_slots'[Len(booked_slots')]

(* The target weekday and the primary date of occurrence occ of a Weekly   *)
(* activity: week occ // count, weekday preferred_days[(occ mod count) mod *)
(* |preferred_days|] or (occ mod count) mod 5.                             *)
WeeklyTargetWeekday(activity, occ) ==
    LET freq == activity.frequency
        i == occ % freq.count
    IN  IF freq.preferred_days # <<>>
        THEN freq.preferred_days[(i % Len(freq.preferred_days)) + 1]
        ELSE i % 5

WeeklyPrimaryDate(activity, occ) ==
    LET first == 7 * (occ \div activity.frequency.count)
    IN  CHOOSE d \in first..(first + 6) :
            Weekday(d) = WeeklyTargetWeekday(activity, occ)

AloneWeekly ==
    /\ Len(activities) = 1
    /\ activities[1].frequency.pattern = "Weekly"

S5Outcome ==
    /\ NumBookings("weekly_test") = 3
    /\ \A d \in {6, 1, 3} : NumOnDate("weekly_test", d) = 1

C13_RequiredOccurrences ==
    /\ \A a \in SeqToSet(activities) :
           _calculate_required_occurrences(a) =
               CASE a.frequency.pattern = "Daily" -> duration_days
                 [] a.frequency.pattern = "Weekly" ->
                        (duration_days \div 7) * a.frequency.count
                 [] a.frequency.pattern = "Monthly" ->
                        (duration_days \div 30) * a.frequency.count
                 [] a.frequency.pattern = "Custom" ->
                        duration_days \div a.frequency.interval_days
    /\ (/\ pc = "done"
        /\ Len(activities) = 1
        /\ activities[1].frequency.pattern = "Daily"
        /\ ~HasWindow(activities[1])
        /\ activities[1].specialist_id = ""
        /\ activities[1].equipment_ids = <<>>
        /\ travel_periods = <<>>
        /\ duration_days = 7) => NumBookings(activities[1].id) = 7

(* C13 witness: the Daily activity of test_frequency_daily_scheduling has  *)
(* its 7 bookings, one per date.                                           *)
C13_Witness ==
    /\ pc = "done"
    /\ InputIs(DailyTest)
    /\ \A d \in 0..6 : NumOnDate("daily_test", d) = 1

(* The activity names a specialist or an equipment that does not exist. *)
UnknownResource(activity) ==
    \/ /\ activity.specialist_id # ""
       /\ activity.specialist_id \notin DOMAIN specialists
    \/ \E k \in 1..Len(activity.equipment_ids) :
           activity.equipment_ids[k] \notin DOMAIN equipment

(* schedule() is working on an activity: one of its occurrences in Phase 1 *)
(* or its backfill in Phase 2.                                             *)
WorkingOnActivity ==
    /\ pc \in {"phase1", "phase2", "backfill"}
    /\ act_index <= Len(activities)

(* C14: every step schedule() takes on an activity that names an unknown   *)
(* specialist or equipment is a step of the scheduler (a lookup that finds *)
(* nothing is a violation, not an error), every candidate of the activity  *)
(* is rejected, and the step changes no booking, no booking index and no   *)
(* scorer record, so that the other activities are scheduled from the same *)
(* state as without it; the activity has no booking at any time.           *)
C14_UnknownResourceNeverBooked ==
    [][/\ \A a \in SeqToSet(activities) :
              UnknownResource(a) => (NumBookings(a.id) = 0)'
       /\ (WorkingOnActivity /\ UnknownResource(CurrentActivity)) =>
              /\ pc = "phase1" =>
                     ValidCandidates(CurrentActivity, Phase1Candidates,
                                     booked_slots) = <<>>
              /\ pc = "backfill" =>
                     ValidCandidates(CurrentActivity, BackfillCandidates,
                                     booked_slots) = <<>>
              /\ UNCHANGED <<booked_slots, specialist_bookings,
                             equipment_bookings, daily_counts,
                             weekly_patterns, light_days>>
              /\ \A id \in DOMAIN failed_activities' :
                     id # CurrentActivity.id =>
                         /\ id \in DOMAIN failed_activities
                         /\ failed_activities'[id] = failed_activities[id]]_vars

(* C14 witness: schedule() has returned; an activity naming an unknown     *)
(* specialist and one naming an unknown equipment have been through both   *)
(* phases with every candidate rejected for that reason and no booking,    *)
(* or one of them has while the other activity of the input has bookings.  *)
C14_Witness ==
    /\ pc = "done"
    /\ \E a, b \in SeqToSet(activities) :
           /\ UnknownResource(a)
           /\ NumBookings(a.id) = 0
           /\ FailuresOfKind(a.id, "equipment") > 0
           /\ ~UnknownResource(b)
           /\ NumBookings(b.id) > 0
           /\ b.id = sorted_activities[Len(activities)].id

(* C15: every run of schedule() reaches the state in which it has         *)
(* returned, whatever the input: occurrences that cannot be placed and the *)
(* empty activity list included.                                           *)
C15_Terminates == <>(pc = "done")

(* C15 witness: schedule() has returned although an activity is left with  *)
(* fewer bookings than required after both phases.                         *)
C15_Witness ==
    /\ pc = "done"
    /\ \E a \in SeqToSet(activities) :
           /\ NumBookings(a.id) < _calculate_required_occurrences(a)
           /\ a.id \in DOMAIN failed_activities

(* A step of Phase 2 that books a slot. *)
Phase2Books ==
    /\ pc = "backfill"
    /\ Len(booked_slots') = Len(booked_slots) + 1

(* C16: a backfill booking goes to a date of the current light-day list,   *)
(* which has fewer than LightDayThreshold (15) bookings at that moment and *)
(* at most 15 after it; the list is recomputed from the bookings after     *)
(* every backfill booking; Phase 2 only appends to the bookings; in S6     *)
(* every date ends with at most 15 bookings.                               *)
C16_BackfillOnLightDays ==
    [][/\ pc = "backfill" => light_days = _find_light_days(booked_slots)
       /\ Phase2Books =>
              /\ NewBooking.date \in SeqToSet(light_days)
              /\ DateCount(NewBooking.date, booked_slots) < LightDayThreshold
              /\ DateCount(NewBooking.date, booked_slots') <= LightDayThreshold
              /\ light_days' = _find_light_days(booked_slots')
       /\ pc \in {"phase2", "backfill"} =>
              /\ Len(booked_slots') >= Len(booked_slots)
              /\ SubSeq(booked_slots', 1, Len(booked_slots)) = booked_slots
       /\ (pc' = "done" /\ InputIs(S6)) =>
              \A d \in 0..end_date :
                  DateCount(d, booked_slots') <= LightDayThreshold]_vars

(* C16 witness: schedule() has returned, the backfill of an activity has   *)
(* filled a date up to 15 bookings and stopped there, one occurrence short *)
(* of the required count.                                                  *)
C16_Witness ==
    /\ pc = "done"
    /\ \E d \in 0..end_date : DateCount(d, booked_slots) = LightDayThreshold
    /\ \E a \in SeqToSet(activities) :
           /\ scheduled < NumBookings(a.id)
           /\ NumBookings(a.id) < _calculate_required_occurrences(a)

(* C17: every MaintenanceWindow that construction accepted has both of    *)
(* start_time and end_time or neither.                                     *)
C17_MaintenanceTimesBothOrNeither ==
    \A e \in DOMAIN equipment :
        \A w \in SeqToSet(equipment[e].maintenance_windows) :
            (w.start_time = NoneTime) <=> (w.end_time = NoneTime)

(* The start times a caller may pass to check_time_slot: every half hour   *)
(* of the day.                                                             *)
StartTimes == {30 * k : k \in 0..47}

OverlapReturned(activity, date, start_time) ==
    check_time_slot(activity, date, start_time, booked_slots).constraint_type
        = "overlap"

(* C18 as stated: check_time_slot returns an overlap violation exactly     *)
(* when a booking of the same date shares a specialist or an equipment id  *)
(* with the activity and its interval intersects [start, start+duration).  *)
C18_OverlapOnlyOnSharedResource ==
    \A a \in SeqToSet(activities) : \A d \in 0..end_date : \A t \in StartTimes :
        OverlapReturned(a, d, t) <=>
            \E i \in Bookings :
                /\ booked_slots[i].date = d
                /\ ShareResource(a, booked_slots[i])
                /\ t < EndMinute(booked_slots[i])
                /\ booked_slots[i].start_time < t + a.duration_minutes

(* The intervals of two bookings intersect as the checker compares them:   *)
(* on times of day, each end being start + duration modulo 24 hours.       *)
CheckerSeesOverlap(start1, end1, b) ==
    start1 < SlotEnd(b) /\ b.start_time < end1

(* C18: check_time_slot returns an overlap violation exactly when the      *)
(* time-window rule passes and some booking of the same date, whether or   *)
(* not it shares a resource with the activity, has an interval that        *)
(* intersects the candidate's as the checker compares them; so no two      *)
(* bookings of one date, resource-free or not, intersect in that sense.    *)
C18_OverlapOnAnySameDateBooking ==
    /\ \A a \in SeqToSet(activities) : \A d \in 0..end_date : \A t \in StartTimes :
           OverlapReturned(a, d, t) <=>
               /\ ~ViolatesTimeWindow(a, t)
               /\ \E i \in Bookings :
                      /\ booked_slots[i].date = d
                      /\ CheckerSeesOverlap(
                             t, _add_minutes_to_time(t, a.duration_minutes),
                             booked_slots[i])
    /\ \A i, j \in Bookings :
           (i < j /\ booked_slots[i].date = booked_slots[j].date) =>
               ~CheckerSeesOverlap(booked_slots[j].start_time,
                                   SlotEnd(booked_slots[j]), booked_slots[i])

(* C18 witness: in S1, two activities without specialist or equipment, the *)
(* 08:30 candidate of P2 was rejected for overlap with P1 on each of the 7 *)
(* dates, and P2 was booked at 08:00 beside it.                            *)
C18_Witness ==
    /\ pc = "done"
    /\ InputIs(S1)
    /\ FailuresOfKind("p2_test", "overlap") = 7
    /\ NumBookings("p2_test") = 7

(* C19: a candidate whose start + duration passes 24:00 is not accepted    *)
(* (with a window it is a time_window violation), and no booking extends   *)
(* past midnight.                                                          *)
C19_NoBookingPastMidnight ==
    /\ \A a \in SeqToSet(activities) : \A d \in 0..end_date : \A t \in StartTimes :
           t + a.duration_minutes > MinutesPerDay =>
               /\ check_time_slot(a, d, t, booked_slots) # NoViolation
               /\ HasWindow(a) =>
                      check_time_slot(a, d, t, booked_slots).constraint_type
                          = "time_window"
    /\ \A i \in Bookings : EndMinute(booked_slots[i]) <= MinutesPerDay

(* The position of an activity in the order in which schedule() takes the  *)
(* activities.                                                             *)
SortedPosition(id) ==
    CHOOSE k \in 1..Len(activities) : sorted_activities[k].id = id

InputPosition(id) ==
    CHOOSE k \in 1..Len(activities) : activities[k].id = id

(* A candidate of the current activity is being checked, scored or booked. *)
EvaluatingCandidates == InPhase1Occurrence \/ pc = "backfill"

(* C20 as stated: whenever a candidate of an activity is checked, scored   *)
(* or booked, in either phase, no booking belongs to an activity that      *)
(* comes after it in the priority order.                                   *)
C20_NoLaterActivityBooked ==
    EvaluatingCandidates =>
        \A i \in Bookings :
            SortedPosition(booked_slots[i].activity_id) <= act_index

(* C20: the order of schedule() is by priority, then frequency importance, *)
(* then input position, and throughout Phase 1 no booking belongs to an    *)
(* activity that comes after the current one in that order.                *)
C20_Phase1SeesNoLaterActivity ==
    /\ \A j, k \in 1..Len(activities) :
           j < k =>
               \/ SortKey(sorted_activities[j]) < SortKey(sorted_activities[k])
               \/ /\ SortKey(sorted_activities[j]) = SortKey(sorted_activities[k])
                  /\ InputPosition(sorted_activities[j].id)
                         < InputPosition(sorted_activities[k].id)
    /\ pc = "phase1" =>
           \A i \in Bookings :
               SortedPosition(booked_slots[i].activity_id) <= act_index

(* C20 witness: Phase 1 is on the second activity of the order, which was  *)
(* declared first in the input; both activities have bookings, and the     *)
(* candidates of the second are checked against those of the first.        *)
C20_Witness ==
    /\ InPhase1Occurrence
    /\ act_index = 2
    /\ CurrentActivity.id = activities[1].id
    /\ NumBookings(sorted_activities[1].id) > 0
    /\ NumBookings(sorted_activities[2].id) > 0

(* The failure record of an activity, a record with no attempt standing    *)
(* for an absent one.                                                      *)
FailureRecord(failed, id) ==
    Get(failed, id, [attempts |-> 0, violations |-> <<>>])

(* The candidates that the step about to be taken hands to the checker,    *)
(* and how many of them the checker rejects.                               *)
CandidatesEvaluated ==
    IF InPhase1Occurrence THEN Phase1Candidates
    ELSE IF pc = "backfill" THEN BackfillCandidates
    ELSE <<>>

RejectedCount(activity, cands) ==
    Cardinality({k \in 1..Len(cands) :
        check_time_slot(activity, cands[k].date, cands[k].start_time,
                        booked_slots) # NoViolation})

RejectionsRecorded(activity, cands) ==
    /\ FailureRecord(failed_activities', activity.id).attempts =
           FailureRecord(failed_activities, activity.id).attempts
               + RejectedCount(activity, cands)
    /\ FailureRecord(failed_activities', activity.id).violations =
           FailureRecord(failed_activities, activity.id).violations
               \o RejectedViolations(activity, cands, booked_slots)

C22_ShortActivityHasFailureRecord ==
    pc = "done" =>
        /\ \A a \in SeqToSet(activities) :
               NumBookings(a.id) < _calculate_required_occurrences(a) =>
                   /\ a.id \in DOMAIN failed_activities
                   /\ failed_activities[a.id].attempts >= 1
                   /\ Len(failed_activities[a.id].violations) >= 1
        /\ activities = <<>> => failed_activities = EmptyDict

(* C23: a Weekly activity never has two bookings on one date; the Weekly   *)
(* activity of test_high_frequency_activity (count 7, window 06:00-21:00,  *)
(* duration 30, 7 days) ends with 7 bookings on 7 distinct dates.          *)
C23_WeeklyOncePerDate ==
    /\ \A a \in SeqToSet(activities) :
           a.frequency.pattern = "Weekly" =>
               \A d \in 0..end_date : NumOnDate(a.id, d) <= 1
    /\ (pc = "done" /\ InputIs(HighFrequency)) =>
           /\ NumBookings("act_high_freq_001") = 7
           /\ \A d \in 0..6 : NumOnDate("act_high_freq_001", d) = 1

(* The rules of the checker in their order of evaluation, and the rules    *)
(* that a candidate breaks, each rule taken on its own.                    *)
RuleOrder == <<"time_window", "overlap", "specialist", "equipment", "travel">>

BrokenRules(activity, date, start_time, slots) ==
    {kind \in SeqToSet(RuleOrder) :
        CASE kind = "time_window" -> ViolatesTimeWindow(activity, start_time)
          [] kind = "overlap" ->
                 _check_overlap(activity, date, start_time, slots) # NoViolation
          [] kind = "specialist" ->
                 /\ activity.specialist_id # ""
                 /\ _check_specialist(activity, date, start_time) # NoViolation
          [] kind = "equipment" ->
                 /\ activity.equipment_ids # <<>>
                 /\ _check_equipment(activity, date, start_time, slots)
                        # NoViolation
          [] kind = "travel" -> _check_travel(activity, date) # NoViolation}

FirstBroken(broken) ==
    RuleOrder[CHOOSE i \in 1..Len(RuleOrder) :
                  /\ RuleOrder[i] \in broken
                  /\ \A j \in 1..(i - 1) : RuleOrder[j] \notin broken]

(* C24: for every activity, date and start time, checked against the       *)
(* bookings that a run of schedule() ends with, check_time_slot returns    *)
(* None exactly when the candidate breaks none of the five rules, and      *)
(* otherwise a violation of the activity on that date whose kind is the    *)
(* first broken rule in the order time_window, overlap, specialist,        *)
(* equipment, travel.                                                      *)
C24_FirstBrokenRuleReturned ==
    pc = "done" =>
        \A a \in SeqToSet(activities) : \A d \in 0..end_date :
        \A t \in StartTimes :
            \E v \in {check_time_slot(a, d, t, booked_slots)} :
            \E broken \in {BrokenRules(a, d, t, booked_slots)} :
                /\ (v = NoViolation) <=> (broken = {})
                /\ broken # {} =>
                       /\ v.constraint_type = FirstBroken(broken)
                       /\ v.activity_id = a.id
                       /\ v.date = d

(* C24 witness: against the bookings made, one candidate breaks the        *)
(* time-window rule together with later rules, another breaks the overlap, *)
(* specialist and equipment rules at once, and a third breaks only the     *)
(* travel rule; another candidate breaks none.                             *)
C24_Witness ==
    /\ pc = "done"
    /\ \E a \in SeqToSet(activities) : \E d \in 0..end_date :
           /\ \E t \in StartTimes :
                  {"time_window", "specialist", "travel"}
                      \subseteq BrokenRules(a, d, t, booked_slots)
           /\ \E t \in StartTimes :
                  BrokenRules(a, d, t, booked_slots) = {"travel"}
    /\ \E a \in SeqToSet(activities) : \E d \in 0..end_date : \E t \in StartTimes :
           {"overlap", "specialist", "equipment"}
               \subseteq BrokenRules(a, d, t, booked_slots)
    /\ \E a \in SeqToSet(activities) : \E d \in 0..end_date : \E t \in StartTimes :
           BrokenRules(a, d, t, booked_slots) = {}

(* The score of every candidate of a list against the bookings made, -1    *)
(* standing for a candidate that the checker rejects.                      *)
CandidateScores(activity, cands) ==
    [k \in 1..Len(cands) |->
        IF IsValid(activity, cands[k], booked_slots)
        THEN score_slot(activity, cands[k].date, cands[k].start_time,
                        booked_slots)
        ELSE -1]

MaxOf(values) == CHOOSE m \in values : \A x \in values : x <= m

(* The step books, out of the candidates cands, the first one in the list  *)
(* among the valid candidates of maximal score.                            *)
BooksFirstBest(activity, cands) ==
    \E sc \in {CandidateScores(activity, cands)} :
    \E top \in {MaxOf(SeqToSet(sc))} :
    \E k \in 1..Len(cands) :
        /\ NewBooking = TimeSlot(activity, cands[k])
        /\ sc[k] >= 0
        /\ sc[k] = top
        /\ \A j \in 1..(k - 1) : sc[j] # top

(* The candidates come date by date, no date twice, the times of a date in *)
(* ascending order.                                                        *)
InGenerationOrder(cands) ==
    /\ \A i \in 1..(Len(cands) - 1) :
           cands[i].date = cands[i + 1].date =>
               cands[i].start_time < cands[i + 1].start_time
    /\ cands # <<>> =>
           Cardinality({i \in 1..(Len(cands) - 1) :
                           cands[i].date # cands[i + 1].date}) + 1
               = Cardinality({cands[i].date : i \in 1..Len(cands)})

(* C25: every booking, of Phase 1 and of Phase 2, is a valid candidate of  *)
(* its occurrence whose score is the maximum over the valid candidates and *)
(* which comes first, in generation order (candidate dates in their order, *)
(* times ascending within a date), among the valid candidates of that      *)
(* score.                                                                  *)
C25_FirstBestCandidateBooked ==
    [][/\ Phase1Books =>
              \E cands \in {Phase1Candidates} :
                  /\ BooksFirstBest(CurrentActivity, cands)
                  /\ InGenerationOrder(cands)
       /\ Phase2Books =>
              \E cands \in {BackfillCandidates} :
                  /\ BooksFirstBest(CurrentActivity, cands)
                  /\ InGenerationOrder(cands)]_vars

(* C25 witness: schedule() has returned, the last activity got bookings in *)
(* both phases, and a booking at 06:00 of an activity without window was   *)
(* made where 06:30 was valid with the same score.                         *)
C25_Witness ==
    /\ pc = "done"
    /\ missing > 0
    /\ 0 < scheduled
    /\ scheduled < NumBookings(sorted_activities[Len(activities)].id)
    /\ \E i \in Bookings :
           \E a \in {ActivityById(booked_slots[i].activity_id)} :
           \E before \in {SubSeq(booked_slots, 1, i - 1)} :
               /\ ~HasWindow(a)
               /\ booked_slots[i].start_time = HM(6, 0)
               /\ check_time_slot(a, booked_slots[i].date, HM(6, 30), before)
                      = NoViolation
               /\ _score_time_preference(a, HM(6, 0))
                      = _score_time_preference(a, HM(6, 30))

(* The frequency importance that the order is stated with. *)
StatedImportance(pattern) ==
    CASE pattern = "Daily" -> 3
      [] pattern = "Weekly" -> 2
      [] pattern = "Monthly" -> 1
      [] pattern = "Custom" -> 0

(* Activity a goes before activity b: lower priority number, or the same   *)
(* priority and a higher frequency importance, or both the same and a      *)
(* declared earlier.                                                       *)
GoesBefore(a, b) ==
    \/ a.priority < b.priority
    \/ /\ a.priority = b.priority
       /\ StatedImportance(a.frequency.pattern)
              > StatedImportance(b.frequency.pattern)
    \/ /\ a.priority = b.priority
       /\ StatedImportance(a.frequency.pattern)
              = StatedImportance(b.frequency.pattern)
       /\ InputPosition(a.id) < InputPosition(b.id)

(* C26: the order of schedule() holds every activity once, by ascending    *)
(* priority, then descending frequency importance (Daily 3, Weekly 2,      *)
(* Monthly 1, Custom 0), then input position; Phase 1 and Phase 2 each go  *)
(* through that order one activity after the other from the first, and     *)
(* every booking and every failure record made on the way belongs to the   *)
(* activity that the phase has reached.                                    *)
C26_ProcessingOrder ==
    [][/\ Len(sorted_activities) = Len(activities)
       /\ SeqToSet(sorted_activities) = SeqToSet(activities)
       /\ \A j, k \in 1..Len(activities) :
              j < k => GoesBefore(sorted_activities[j], sorted_activities[k])
       /\ (pc = "phase1" /\ pc' = "phase2") =>
              act_index = Len(activities) + 1 /\ act_index' = 1
       /\ (pc' = "done") => act_index = Len(activities) + 1
       /\ ~(pc = "phase1" /\ pc' = "phase2") =>
              act_index' \in {act_index, act_index + 1}
       /\ (Phase1Books \/ Phase2Books) =>
              NewBooking.activity_id = sorted_activities[act_index].id
       /\ failed_activities' # failed_activities =>
              \A id \in DOMAIN failed_activities' :
                  FailureRecord(failed_activities', id)
                      # FailureRecord(failed_activities, id)
                          => id = sorted_activities[act_index].id]_vars

(* C26 witness: Phase 2 is on the backfill of the third activity of the    *)
(* order, which was declared fourth; the order differs from the declared   *)
(* one by priority (first), by frequency importance (last, declared first) *)
(* and keeps the declared order of the two activities equal on both keys;  *)
(* the activities before it have their bookings.                           *)
C26_Witness ==
    /\ pc = "backfill"
    /\ InputIs(OrderingMix)
    /\ act_index = 3
    /\ [k \in 1..4 |-> sorted_activities[k].id]
           = <<"act_003", "med_002", "act_004", "act_001">>
    /\ NumBookings("act_003") = 5
    /\ NumBookings("med_002") = 5
    /\ NumBookings("act_004") = 0
    /\ NumBookings("act_001") = 2

(* C27: every step of schedule() leaves the booking list as it is or       *)
(* appends one slot at its end, the slots already booked keeping their     *)
(* place and their content; a step in which candidates are rejected and    *)
(* none is booked changes the failure map and nothing else of the state    *)
(* and of the scorer.                                                      *)
C27_BookingLogOnlyGrows ==
    [][/\ \/ booked_slots' = booked_slots
          \/ /\ Len(booked_slots') = Len(booked_slots) + 1
             /\ SubSeq(booked_slots', 1, Len(booked_slots)) = booked_slots
       /\ (failed_activities' # failed_activities
              /\ Len(booked_slots') = Len(booked_slots)) =>
              UNCHANGED <<booked_slots, specialist_bookings,
                          equipment_bookings, activity_occurrences,
                          daily_counts, weekly_patterns>>]_vars

(* C27 witness: schedule() has returned with several bookings in the log,  *)
(* of an activity that also had an occurrence with every candidate         *)
(* rejected, and of another activity booked after it.                      *)
C27_Witness ==
    /\ pc = "done"
    /\ Len(activities) = 2
    /\ \E a \in {sorted_activities[1]} :
           /\ NumBookings(a.id) > 1
           /\ NumBookings(a.id) < _calculate_required_occurrences(a)
           /\ FailureRecord(failed_activities, a.id).attempts > 0
           /\ booked_slots[1].activity_id = a.id
    /\ booked_slots[Len(booked_slots)].activity_id = sorted_activities[2].id
    /\ sorted_activities[2].id # sorted_activities[1].id

(* The bookings of the log that name a specialist, an equipment or an      *)
(* activity, in log order.                                                 *)
LoggedForSpecialist(id) ==
    LET Names(slot) == slot.specialist_id = id
    IN  SelectSeq(booked_slots, Names)

LoggedForEquipment(id) ==
    LET Names(slot) == id \in SeqToSet(slot.equipment_ids)
    IN  SelectSeq(booked_slots, Names)

LoggedSpecialists ==
    {booked_slots[i].specialist_id : i \in Bookings} \ {""}

LoggedEquipment ==
    UNION {SeqToSet(booked_slots[i].equipment_ids) : i \in Bookings}

RECURSIVE SumOfCounters(_, _)
SumOfCounters(counters, ids) ==
    IF ids = {} THEN 0
    ELSE LET id == CHOOSE x \in ids : TRUE
         IN  counters[id] + SumOfCounters(counters, ids \ {id})

(* C28: at every point the specialist index has an entry for exactly the   *)
(* specialists named in the log, holding the bookings that name the        *)
(* specialist in log order; the equipment index likewise for the equipment *)
(* ids listed by the logged bookings; the occurrence counter of every      *)
(* activity is the number of its bookings in the log, and the counters add *)
(* up to the length of the log.                                            *)
C28_IndexesAgreeWithLog ==
    /\ DOMAIN specialist_bookings = LoggedSpecialists
    /\ \A id \in DOMAIN specialist_bookings :
           specialist_bookings[id] = LoggedForSpecialist(id)
    /\ DOMAIN equipment_bookings = LoggedEquipment
    /\ \A id \in DOMAIN equipment_bookings :
           equipment_bookings[id] = LoggedForEquipment(id)
    /\ \A id \in DOMAIN activity_occurrences :
           activity_occurrences[id] = NumBookings(id)
    /\ \A a \in SeqToSet(activities) :
           a.id \notin DOMAIN activity_occurrences => NumBookings(a.id) = 0
    /\ SumOfCounters(activity_occurrences, DOMAIN activity_occurrences)
           = Len(booked_slots)

(* C28 witness: schedule() has returned; the log holds the bookings of two *)
(* activities that share an equipment, one of them listing two equipment   *)
(* ids, the other a specialist; the two equipment indexes differ in length *)
(* and a counter stands at 0 < n < length of the log.                      *)
C28_Witness ==
    /\ pc = "done"
    /\ \E id, other \in DOMAIN equipment_bookings :
           /\ Len(equipment_bookings[other]) < Len(equipment_bookings[id])
           /\ \E i, j \in 1..Len(equipment_bookings[id]) :
                  /\ equipment_bookings[id][i].activity_id
                         # equipment_bookings[id][j].activity_id
                  /\ Len(equipment_bookings[id][i].equipment_ids) = 2
    /\ \E id \in DOMAIN specialist_bookings :
           /\ Len(specialist_bookings[id]) > 1
           /\ Len(specialist_bookings[id]) < Len(booked_slots)
    /\ \E id \in DOMAIN activity_occurrences :
           /\ 0 < activity_occurrences[id]
           /\ activity_occurrences[id] < Len(booked_slots)

(* check_time_slot returns the "at capacity" violation: the rules before   *)
(* the equipment rule pass and the first equipment id of the activity that *)
(* is not found in order is found at capacity.                             *)
CapacityReturned(activity, date, start_time, slots) ==
    /\ check_time_slot(activity, date, start_time, slots).constraint_type
           = "equipment"
    /\ \E i \in 1..Len(activity.equipment_ids) :
           /\ EquipmentFinding(activity.equipment_ids[i], activity, date,
                               start_time, slots) = "capacity"
           /\ \A j \in 1..(i - 1) :
                  EquipmentFinding(activity.equipment_ids[j], activity, date,
                                   start_time, slots) = "ok"

(* A candidate that passes the overlap rule has no concurrent user on any  *)
(* of its equipment, and the capacity violation is not returned for it.    *)
CapacityShadowed(activity, date, start_time, slots) ==
    /\ ~CapacityReturned(activity, date, start_time, slots)
    /\ _check_overlap(activity, date, start_time, slots) = NoViolation =>
           \A i \in 1..Len(activity.equipment_ids) :
               concurrent_count(
                   activity.equipment_ids[i], date, start_time,
                   _add_minutes_to_time(start_time, activity.duration_minutes),
                   slots) = 0

(* C29: check_time_slot never returns the equipment "at capacity"          *)
(* violation, neither for a candidate that schedule() checks nor, against  *)
(* the bookings a run ends with, for any activity, date and start time:    *)
(* whenever the overlap rule passes, the count of concurrent users is 0    *)
(* for every equipment of the activity, which is below every               *)
(* max_concurrent_users >= 1, so that the value of the limit has no effect *)
(* on any check and hence on the schedule.                                 *)
C29_CapacityRuleNeverFires ==
    /\ \A e \in DOMAIN equipment : equipment[e].max_concurrent_users >= 1
    /\ EvaluatingCandidates =>
           \E cands \in {CandidatesEvaluated} :
               \A k \in 1..Len(cands) :
                   CapacityShadowed(CurrentActivity, cands[k].date,
                                    cands[k].start_time, booked_slots)
    /\ pc = "done" =>
           \A a \in SeqToSet(activities) : \A d \in 0..end_date :
           \A t \in StartTimes :
               CapacityShadowed(a, d, t, booked_slots)

(* C29 witness: schedule() has returned with two bookings back to back on  *)
(* one date that list an equipment of max_concurrent_users 1; a candidate  *)
(* of the second activity at the start of the first booking is rejected    *)
(* for overlap, and its equipment would be found at capacity.              *)
C29_Witness ==
    /\ pc = "done"
    /\ \E i, j \in Bookings : \E e \in DOMAIN equipment :
           /\ booked_slots[i].activity_id # booked_slots[j].activity_id
           /\ booked_slots[i].date = booked_slots[j].date
           /\ e \in SeqToSet(booked_slots[i].equipment_ids)
           /\ e \in SeqToSet(booked_slots[j].equipment_ids)
           /\ equipment[e].max_concurrent_users = 1
           /\ EndMinute(booked_slots[i]) = booked_slots[j].start_time
           /\ \E a \in {ActivityById(booked_slots[j].activity_id)} :
                  /\ OverlapReturned(a, booked_slots[i].date,
                                     booked_slots[i].start_time)
                  /\ EquipmentFinding(e, a, booked_slots[i].date,
                                      booked_slots[i].start_time, booked_slots)
                         = "capacity"

----------------------------------------------------------------------------
(* Phase 1 as a function of the activity list.                             *)

(* What Phase 1 reads and writes: the booking log and the weekly patterns  *)
(* of the scorer.                                                          *)
Phase1State(slots, patterns) == [slots |-> slots, patterns |-> patterns]

(* scored_slots[0] of _find_best_slot under the given weekly patterns. *)
BestCandidateWith(patterns, activity, valid, slots) ==
    LET sc == [k \in 1..Len(valid) |->
                  score_slot_with(patterns, activity, valid[k].date,
                                  valid[k].start_time, slots)]
        best == CHOOSE k \in 1..Len(valid) :
                    /\ \A j \in 1..Len(valid) : sc[j] <= sc[k]
                    /\ \A j \in 1..(k - 1) : sc[j] < sc[k]
    IN  valid[best]

(* One iteration of the loop of _schedule_activity: _find_best_slot, then  *)
(* add_booking and record_booking when it returns a slot.                  *)
Phase1Occurrence(st, activity, occ) ==
    LET cands == _generate_candidate_slots(activity, occ, st.slots)
        valid == ValidCandidates(activity, cands, st.slots)
    IN  IF valid = <<>> THEN st
        ELSE LET best == BestCandidateWith(st.patterns, activity, valid,
                                           st.slots)
             IN  Phase1State(
                     Append(st.slots, TimeSlot(activity, best)),
                     Put(st.patterns, activity.id,
                         Append(Get(st.patterns, activity.id, <<>>),
                                Weekday(best.date))))

(* _schedule_activity from occurrence_index occ on; the state after each   *)
(* iteration is bound as a value before the next one starts.               *)
RECURSIVE _schedule_activity(_, _, _)
_schedule_activity(st, activity, occ) ==
    IF occ >= _calculate_required_occurrences(activity) THEN st
    ELSE CHOOSE result \in
             {_schedule_activity(after, activity, occ + 1) :
                  after \in {Phase1Occurrence(st, activity, occ)}} : TRUE

(* "for activity in sorted_activities: self._schedule_activity(activity)"  *)
(* from position k on.                                                     *)
RECURSIVE Phase1From(_, _, _)
Phase1From(st, sorted, k) ==
    IF k > Len(sorted) THEN st
    ELSE CHOOSE result \in
             {Phase1From(after, sorted, k + 1) :
                  after \in {_schedule_activity(st, sorted[k], 0)}} : TRUE

(* Phase 1 taking the activities from the last of the sorted order to the  *)
(* first, so that an activity is booked against the bookings of the later  *)
(* ones.                                                                   *)
Phase1BookingsBackwards(acts) ==
    LET sorted == _sort_activities(acts)
        backwards == [k \in 1..Len(sorted) |-> sorted[Len(sorted) + 1 - k]]
    IN  Phase1From(Phase1State(<<>>, EmptyDict), backwards, 1).slots

(* The booking log Phase 1 of schedule() leaves for the activity list      *)
(* acts, the resources, travel periods and horizon being those of the run. *)
Phase1Bookings(acts) ==
    LET sorted == _sort_activities(acts)
    IN  Phase1From(Phase1State(<<>>, EmptyDict), sorted, 1).slots

(* The input with all activities after position k of the sorted order      *)
(* removed.                                                                *)
TruncatedInput(k) ==
    LET Keep(a) == SortedPosition(a.id) <= k
    IN  SelectSeq(activities, Keep)

(* The bookings of the run for the activities at positions up to k. *)
BookingsUpTo(k) ==
    LET Keep(slot) == SortedPosition(slot.activity_id) <= k
    IN  SelectSeq(booked_slots, Keep)

(* The bookings of the run for one activity. *)
BookingsOfActivity(id) ==
    LET Keep(slot) == slot.activity_id = id
    IN  SelectSeq(booked_slots, Keep)

(* Phase 1 of schedule() has just ended. *)
Phase1Over == pc = "phase2" /\ act_index = 1

(* C30: when Phase 1 of a run ends, its booking log is the one Phase 1     *)
(* produces as a function of the input, and for every position k of the    *)
(* sorted order, Phase 1 on the input with all activities after position k *)
(* removed produces exactly the bookings (activity, date, start time, in   *)
(* the same order) that the run on the full input made for the activities  *)
(* at positions up to k.                                                   *)
C30_Phase1PrefixIndependent ==
    Phase1Over =>
        /\ Phase1Bookings(activities) = booked_slots
        /\ \A k \in 0..Len(activities) :
               Phase1Bookings(TruncatedInput(k)) = BookingsUpTo(k)

(* C30 witness: Phase 1 has ended on an input whose sorted order differs   *)
(* from its declared order; for a position k the activities up to k and    *)
(* the activity at k + 1 both have bookings, the run without the           *)
(* activities after k made the same bookings for the first k, and the      *)
(* activity at k + 1 alone would have been booked differently, so that the *)
(* earlier activities did shape the later one.                             *)
C30_Witness ==
    /\ Phase1Over
    /\ activities # sorted_activities
    /\ \E k \in 1..(Len(activities) - 1) :
           /\ BookingsUpTo(k) # <<>>
           /\ BookingsOfActivity(sorted_activities[k + 1].id) # <<>>
           /\ Phase1Bookings(TruncatedInput(k)) = BookingsUpTo(k)
           /\ Phase1Bookings(<<sorted_activities[k + 1]>>)
                  # BookingsOfActivity(sorted_activities[k + 1].id)

====
